---- MODULE Spec2Model ----
\* Model of the PDR core generalizers of pdr_generalizers.cpp:
\* core_bool_inductive_generalizer, core_multi_generalizer,
\* core_farkas_generalizer, core_arith_inductive_generalizer and
\* core_induction_generalizer, driven by an inductiveness oracle
\* (pred_transformer::check_inductive) whose answers are memoised per cube.
EXTENDS Integers, Naturals, Sequences, FiniteSets, TLC

\* ---------------------------------------------------------------------------
\* Bounds
MaxLen == 3
MaxFailLimit == 1

\* ---------------------------------------------------------------------------
\* Terms and literals (hash-consed expressions: structural equality)
NoTerm == [b |-> "", neg |-> 0]
Var(v) == [b |-> v, neg |-> 0]
MkUminus(x) == [b |-> x.b, neg |-> x.neg + 1]
IsInt(x) == x.b \in {"x", "y"}

Lit(op, name, t, n, t2, args) ==
  [op |-> op, name |-> name, t |-> t, n |-> n, t2 |-> t2, args |-> args]
TrueLit == Lit("true", "", NoTerm, 0, NoTerm, <<>>)
FalseLit == Lit("false", "", NoTerm, 0, NoTerm, <<>>)
MkAtom(nm) == Lit("atom", nm, NoTerm, 0, NoTerm, <<>>)
MkNot(e) == Lit("not", "", NoTerm, 0, NoTerm, <<e>>)
MkAnd(s) == Lit("and", "", NoTerm, 0, NoTerm, s)
MkOr(s) == Lit("or", "", NoTerm, 0, NoTerm, s)
\* x <= r, x >= r with a numeral r
MkLe(x, r) == Lit("le", "", x, r, NoTerm, <<>>)
MkGe(x, r) == Lit("ge", "", x, r, NoTerm, <<>>)
\* y <= x, y >= x between two terms
MkLeT(y, x) == Lit("le", "", y, 0, x, <<>>)
MkGeT(y, x) == Lit("ge", "", y, 0, x, <<>>)
\* (x mod 2) = 0
MkParity(x) == Lit("even", "", x, 0, NoTerm, <<>>)
IsNumeral(e) == e.t2 = NoTerm

\* The literals a core is built from, as a cube (true is neutral).
LitSet(c) == {c[j] : j \in 1..Len(c)} \ {TrueLit}
ExprSet(c) == {c[j] : j \in 1..Len(c)}

Seqs(S, n) == UNION {[1..k -> S] : k \in 0..n}
Min(S) == CHOOSE m \in S : \A o \in S : m <= o
Abs(r) == IF r < 0 THEN -r ELSE r

RECURSIVE ConcatAll(_)
ConcatAll(ss) == IF Len(ss) = 0 THEN <<>> ELSE Head(ss) \o ConcatAll(Tail(ss))

\* ---------------------------------------------------------------------------
\* Input literal universes
BoolLits == {MkAtom("a"), MkAtom("b"), TrueLit}
FarkasLits == {MkAtom("a"), MkAtom("b"), MkOr(<<MkAtom("a"), MkAtom("b")>>)}
ArithLits == UNION {{MkLe(Var(v), 2), MkGe(Var(v), 2),
                     MkNot(MkLe(Var(v), 2)), MkNot(MkGe(Var(v), 2))} : v \in {"x", "y"}}
             \cup {MkLe(Var("z"), 2), MkGe(Var("z"), 2)}
Gens == {"bool", "multi", "farkas", "arith", "induction"}
InputsFor(g) ==
  CASE g = "arith" -> Seqs(ArithLits, MaxLen)
    [] g = "farkas" -> Seqs(FarkasLits, MaxLen)
    [] OTHER -> Seqs(BoolLits, MaxLen)

VARIABLES
  gen, pc, ret, core, input, ul, ul0, det, memo, called, mono, vres, run,
  i, nf, processed, failLimit, rejects,
  mOld, mIdx, mExprs, mCores, mUl,
  aEqs, aIdx, aEq, aBase, aCand,
  fB, fBs, fIdx, fChange, fTarget, fDisj,
  hasParent, indRes

oracleVars == <<memo, called, mono>>
boolVars == <<i, nf, processed, rejects>>
multiVars == <<mOld, mIdx, mExprs, mCores, mUl>>
arithVars == <<aEqs, aIdx, aEq, aBase, aCand>>
fkVars == <<fB, fBs, fIdx, fChange, fTarget, fDisj>>
vars == <<gen, pc, ret, core, input, ul, ul0, det, memo, called, mono, vres, run,
          i, nf, processed, failLimit, rejects, mOld, mIdx, mExprs, mCores, mUl,
          aEqs, aIdx, aEq, aBase, aCand, fB, fBs, fIdx, fChange, fTarget, fDisj, hasParent, indRes>>

\* ---------------------------------------------------------------------------
\* Inductiveness oracle check_inductive(level, core, uses_level): a
\* deterministic verdict per cube (memo), which an inconclusive solver run may
\* turn into a failure when det = FALSE; it may refine uses_level and never
\* modifies the core.
MemoVals(S) == IF S \in DOMAIN memo THEN {memo[S]} ELSE BOOLEAN
MemoAdd(S, b) == IF S \in DOMAIN memo THEN memo ELSE memo @@ (S :> b)
Answers(b) == IF b THEN (IF det THEN {TRUE} ELSE BOOLEAN) ELSE {FALSE}
\* values check_inductive may leave in uses_level
OracleUl(u) == IF mono THEN {u, TRUE} ELSE BOOLEAN

NoEq == [x |-> NoTerm, r |-> 0, k |-> 0, l |-> 0]

InitState ==
  /\ gen \in Gens
  /\ input \in InputsFor(gen)
  /\ core = input
  /\ ul0 \in BOOLEAN
  /\ ul = ul0
  /\ det \in BOOLEAN
  /\ memo \in {LitSet(input) :> b : b \in BOOLEAN}
  /\ called = FALSE
  /\ vres = "none"
  /\ run = 1
  /\ pc = "start"
  /\ ret = "done"
  /\ i = 0 /\ nf = 0 /\ processed = {} /\ rejects = 0
  /\ failLimit \in (IF gen \in {"bool", "multi"} THEN 0..MaxFailLimit ELSE {0})
  /\ mOld = <<>> /\ mIdx = 0 /\ mExprs = {} /\ mCores = <<>> /\ mUl = FALSE
  /\ aEqs = <<>> /\ aIdx = 0
  /\ aEq = NoEq /\ aBase = <<>> /\ aCand = <<>>
  /\ fB = TrueLit /\ fBs = <<>> /\ fIdx = 0 /\ fChange = FALSE
  /\ fTarget = TrueLit /\ fDisj = TrueLit
  /\ hasParent \in (IF gen = "induction" THEN BOOLEAN ELSE {FALSE})
  /\ indRes = "none"

\* mono: the oracle never lowers uses_level
Init == InitState /\ mono \in BOOLEAN

\* ---------------------------------------------------------------------------
\* core_bool_inductive_generalizer::operator()
\* early-return threshold off by one
MinSizeM == 0
MinSize == 1
BoolTrivial(c) == Len(c) <= MinSize
\* loop condition without the failure-limit test
BoolLoopCondNoLimit(c, pos, fails, lim) ==
  /\ pos < Len(c)
  /\ MinSize < Len(c)
BoolLoopCond(c, pos, fails, lim) ==
  /\ pos < Len(c)
  /\ MinSize < Len(c)
  /\ (lim = 0 \/ fails <= lim)
\* for (i = 0; i < core.size() && processed.contains(core[i]); ++i);
FirstUnprocessed(c, P) ==
  Min({j \in 0..Len(c) : j = Len(c) \/ c[j + 1] \notin P})

BoolStart ==
  /\ pc = "start" /\ gen = "bool"
  /\ i' = 0 /\ nf' = 0 /\ processed' = {} /\ rejects' = 0
  /\ ret' = "done"
  /\ pc' = IF BoolTrivial(core) THEN "bool_ret" ELSE "bool_loop"
  /\ UNCHANGED <<gen, core, input, ul, ul0, det, oracleVars, vres, run, failLimit,
                 multiVars, arithVars, fkVars, hasParent, indRes>>

BoolStep ==
  /\ pc = "bool_loop"
  /\ BoolLoopCond(core, i, nf, failLimit)
  /\ LET lit == core[i + 1]
         trial == [core EXCEPT ![i + 1] = TrueLit]
         S == LitSet(trial)
     IN \E b \in MemoVals(S) : \E ans \in Answers(b), nul \in OracleUl(ul) :
          /\ memo' = MemoAdd(S, b)
          /\ called' = TRUE
          /\ UNCHANGED mono
          /\ ul' = nul
          /\ IF ans
               THEN /\ core' = trial
                    /\ nf' = 0
                    /\ i' = FirstUnprocessed(trial, processed)
                    /\ UNCHANGED <<processed, rejects>>
               ELSE /\ core' = core
                    /\ processed' = processed \cup {lit}
                    /\ nf' = nf + 1
                    /\ i' = i + 1
                    /\ rejects' = rejects + 1
  /\ UNCHANGED <<gen, pc, ret, input, ul0, det, vres, run, failLimit,
                 multiVars, arithVars, fkVars, hasParent, indRes>>

\* ---------------------------------------------------------------------------
\* core_multi_generalizer::operator()(n, core, uses_level, new_cores)
\* expr_ref_vector old_core(m): declared empty, never filled.
OldCoreInit(c) == <<>>
\* core1[i] = core1.back(); core1.pop_back();
RemoveSwap(s, idx) == SubSeq([s EXCEPT ![idx] = s[Len(s)]], 1, Len(s) - 1)

MultiStart ==
  /\ pc = "start" /\ gen = "multi"
  /\ mOld' = OldCoreInit(core)
  /\ mUl' = ul
  /\ i' = 0 /\ nf' = 0 /\ processed' = {} /\ rejects' = 0
  /\ ret' = "multi_first"
  /\ pc' = IF BoolTrivial(core) THEN "bool_ret" ELSE "bool_loop"
  /\ UNCHANGED <<gen, core, input, ul, ul0, det, oracleVars, vres, run, failLimit,
                 mIdx, mExprs, mCores, arithVars, fkVars, hasParent, indRes>>

\* Return from m_gen (the bool generalizer) into its caller.
BoolExit ==
  /\ \/ pc = "bool_ret"
     \/ pc = "bool_loop" /\ ~BoolLoopCond(core, i, nf, failLimit)
  /\ CASE ret = "done" ->
            /\ pc' = "done"
            /\ UNCHANGED multiVars
       [] ret = "multi_first" ->
            /\ mCores' = <<[c |-> core, ul |-> ul]>>
            /\ mExprs' = ExprSet(core)
            /\ mIdx' = 0
            /\ pc' = "multi_loop"
            /\ UNCHANGED <<mOld, mUl>>
       [] ret = "multi_trial" ->
            /\ IF Len(core) < Len(mOld)
                 THEN /\ mCores' = Append(mCores, [c |-> core, ul |-> ul])
                      /\ mExprs' = mExprs \cap ExprSet(core)
                 ELSE UNCHANGED <<mCores, mExprs>>
            /\ mIdx' = mIdx + 1
            /\ pc' = "multi_loop"
            /\ UNCHANGED <<mOld, mUl>>
  /\ UNCHANGED <<gen, ret, core, input, ul, ul0, det, oracleVars, vres, run,
                 boolVars, failLimit, arithVars, fkVars, hasParent, indRes>>

\* One iteration of the loop over old_core, or its exit.
MultiStep ==
  /\ pc = "multi_loop"
  /\ IF mIdx < Len(mOld)
       THEN IF mOld[mIdx + 1] \in mExprs
              THEN LET core1 == RemoveSwap(mOld, mIdx + 1) IN
                   /\ core' = core1
                   /\ ul' = mUl
                   /\ i' = 0 /\ nf' = 0 /\ processed' = {} /\ rejects' = 0
                   /\ ret' = "multi_trial"
                   /\ pc' = IF BoolTrivial(core1) THEN "bool_ret" ELSE "bool_loop"
                   /\ UNCHANGED mIdx
              ELSE /\ mIdx' = mIdx + 1
                   /\ UNCHANGED <<core, ul, boolVars, ret, pc>>
       ELSE /\ pc' = "done"
            /\ UNCHANGED <<core, ul, boolVars, ret, mIdx>>
  /\ UNCHANGED <<gen, input, ul0, det, oracleVars, vres, run, failLimit,
                 mOld, mExprs, mCores, mUl, arithVars, fkVars, hasParent, indRes>>

\* ---------------------------------------------------------------------------
\* core_arith_inductive_generalizer
\* insert_bound: a negative bound on x is a bound on -x with the direction
\* inverted; records are indexed by abs(r).
InsertBound(isLower, x, r, idx) ==
  IF r < 0 THEN <<[lower |-> ~isLower, x |-> MkUminus(x), r |-> Abs(r), i |-> idx]>>
           ELSE <<[lower |-> isLower, x |-> x, r |-> Abs(r), i |-> idx]>>

\* the four shapes recognised by get_eqs for the literal at index idx
BoundOf(e, idx) ==
  IF e.op = "not" /\ e.args[1].op = "le" /\ IsNumeral(e.args[1]) /\ IsInt(e.args[1].t)
    THEN InsertBound(TRUE, e.args[1].t, e.args[1].n + 1, idx)
  ELSE IF e.op = "not" /\ e.args[1].op = "ge" /\ IsNumeral(e.args[1]) /\ IsInt(e.args[1].t)
    THEN InsertBound(FALSE, e.args[1].t, e.args[1].n - 1, idx)
  ELSE IF e.op = "le" /\ IsNumeral(e)
    THEN InsertBound(FALSE, e.t, e.n, idx)
  ELSE IF e.op = "ge" /\ IsNumeral(e)
    THEN InsertBound(TRUE, e.t, e.n, idx)
  ELSE <<>>

BoundsOf(c) == ConcatAll([j \in 1..Len(c) |-> BoundOf(c[j], j - 1)])
IsLowerRec(b) == b.lower
IsUpperRec(b) == ~b.lower
RECURSIVE WithKey(_, _)
WithKey(s, r) ==
  IF Len(s) = 0 THEN <<>>
  ELSE (IF Head(s).r = r THEN <<Head(s)>> ELSE <<>>) \o WithKey(Tail(s), r)

\* m_lb keys r >= 2 also present in m_ub
EqKeys(c) ==
  LET lbs == SelectSeq(BoundsOf(c), IsLowerRec)
      ubs == SelectSeq(BoundsOf(c), IsUpperRec)
  IN {lb.r : lb \in {lbs[j] : j \in 1..Len(lbs)}}
       \cap {ub.r : ub \in {ubs[j] : j \in 1..Len(ubs)}}
       \cap {r \in Nat : r >= 2}

\* t1 == t2, or th_rewriter reduces (t1 = t2) to true (-(-x) rewrites to x)
SameTerm(t1, t2) == t1 = t2 \/ (t1.b = t2.b /\ t1.neg % 2 = t2.neg % 2)

EqsForKey(c, r) ==
  LET terms1 == WithKey(SelectSeq(BoundsOf(c), IsLowerRec), r)
      terms2 == WithKey(SelectSeq(BoundsOf(c), IsUpperRec), r)
  IN ConcatAll([n \in 1..Len(terms1) |->
       LET js == {j \in 1..Len(terms2) : SameTerm(terms1[n].x, terms2[j].x)}
       IN IF js = {} THEN <<>>
          ELSE <<[x |-> terms1[n].x, r |-> r, k |-> terms1[n].i, l |-> terms2[Min(js)].i]>>])

\* iteration order over the keys of m_lb (hash order)
KeyOrders(c) ==
  {f \in [1..Cardinality(EqKeys(c)) -> EqKeys(c)] :
     \A p, q \in 1..Cardinality(EqKeys(c)) : p # q => f[p] # f[q]}
GetEqs(c, ord) == ConcatAll([n \in 1..Len(ord) |-> EqsForKey(c, ord[n])])

RECURSIVE SubstituteAlias(_, _, _)
SubstituteAlias(r, x, e) ==
  IF e.op = "not" /\ SubstituteAlias(r, x, e.args[1]).ok
    THEN [ok |-> TRUE, res |-> MkNot(SubstituteAlias(r, x, e.args[1]).res)]
  ELSE IF e.op = "le" /\ IsNumeral(e) /\ e.n = r
    THEN [ok |-> TRUE, res |-> MkLeT(e.t, x)]
  ELSE IF e.op = "ge" /\ IsNumeral(e) /\ e.n = r
    THEN [ok |-> TRUE, res |-> MkGeT(e.t, x)]
  ELSE [ok |-> FALSE, res |-> e]

\* the candidate core built for one equality (lines 178-193)
ArithNewCore(c, q) ==
  LET base == [j \in 1..Len(c) |->
                 IF j - 1 = q.k \/ q.k = q.l THEN TrueLit
                 ELSE IF SubstituteAlias(q.r, q.x, c[j]).ok
                        THEN SubstituteAlias(q.r, q.x, c[j]).res
                        ELSE c[j]]
  IN IF Abs(q.r) >= 2 /\ IsInt(q.x)
       THEN [base EXCEPT ![q.k + 1] = MkParity(q.x), ![q.l + 1] = MkLe(q.x, q.r)]
       ELSE base

ArithStart ==
  /\ pc = "start" /\ gen = "arith"
  /\ IF Len(core) <= 1
       THEN /\ pc' = "done"
            /\ UNCHANGED arithVars
       ELSE \E ord \in KeyOrders(core) :
              /\ aEqs' = GetEqs(core, ord)
              /\ aIdx' = 0
              /\ pc' = "arith_loop"
              /\ UNCHANGED <<aEq, aBase, aCand>>
  /\ UNCHANGED <<gen, ret, core, input, ul, ul0, det, oracleVars, vres, run,
                 boolVars, failLimit, multiVars, fkVars, hasParent, indRes>>

ArithStep ==
  /\ pc = "arith_loop"
  /\ aIdx < Len(aEqs)
  /\ LET nc == ArithNewCore(core, aEqs[aIdx + 1])
         S == LitSet(nc)
     IN \E b \in MemoVals(S) : \E ans \in Answers(b), nul \in OracleUl(ul) :
          /\ memo' = MemoAdd(S, b)
          /\ called' = TRUE
          /\ UNCHANGED mono
          /\ ul' = nul
          /\ core' = IF ans THEN nc ELSE core
  /\ aIdx' = aIdx + 1
  /\ aEq' = aEqs[aIdx + 1]
  /\ aBase' = core
  /\ aCand' = ArithNewCore(core, aEqs[aIdx + 1])
  /\ UNCHANGED <<gen, pc, ret, input, ul0, det, vres, run, boolVars, failLimit,
                 multiVars, aEqs, fkVars, hasParent, indRes>>

ArithExit ==
  /\ pc = "arith_loop"
  /\ aIdx >= Len(aEqs)
  /\ pc' = "done"
  /\ UNCHANGED <<gen, ret, core, input, ul, ul0, det, oracleVars, vres, run,
                 boolVars, failLimit, multiVars, arithVars, fkVars, hasParent, indRes>>

\* ---------------------------------------------------------------------------
\* core_farkas_generalizer::operator()
\* manager::mk_and / mk_or / get_or and datalog::flatten_and
PmMkAnd(s) == IF Len(s) = 0 THEN TrueLit ELSE IF Len(s) = 1 THEN s[1] ELSE MkAnd(s)
PmMkOr(s) == IF Len(s) = 0 THEN FalseLit ELSE IF Len(s) = 1 THEN s[1] ELSE MkOr(s)
PmGetOr(e) == IF e.op = "or" THEN e.args ELSE <<e>>
RECURSIVE FlattenAnd(_)
FlattenAnd(s) ==
  IF Len(s) = 0 THEN <<>>
  ELSE IF Head(s).op = "and" THEN FlattenAnd(Head(s).args \o Tail(s))
  ELSE IF Head(s) = TrueLit THEN FlattenAnd(Tail(s))
  ELSE <<Head(s)>> \o FlattenAnd(Tail(s))

\* lemma guesses farkas_learner::get_lemma_guesses can return
LemmaChoices == {<<>>, <<MkAtom("i1")>>, <<MkAtom("i1"), MkAtom("i2")>>}
\* the second argument of get_lemma_guesses for disjunct Bs[i]
FarkasTarget(B, Bi) == B
\* uses_level after the loop
\* uses_level assigned the change flag
FarkasUsesLevelM(change, u) == change
FarkasUsesLevel(change, u) == IF change THEN TRUE ELSE u

FarkasStart ==
  /\ pc = "start" /\ gen = "farkas"
  /\ IF Len(core) = 0
       THEN /\ pc' = "done"
            /\ UNCHANGED <<fB, fBs>>
       ELSE /\ fB' = PmMkAnd(core)
            /\ fBs' = PmGetOr(PmMkAnd(core))
            /\ pc' = "farkas_loop"
  /\ fIdx' = 0 /\ fChange' = FALSE
  /\ UNCHANGED <<gen, ret, core, input, ul, ul0, det, oracleVars, vres, run,
                 boolVars, failLimit, multiVars, arithVars, fTarget, fDisj, hasParent, indRes>>

FarkasStep ==
  /\ pc = "farkas_loop"
  /\ fIdx < Len(fBs)
  /\ fTarget' = FarkasTarget(fB, fBs[fIdx + 1])
  /\ fDisj' = fBs[fIdx + 1]
  /\ \E ok \in BOOLEAN, lemmas \in LemmaChoices :
       IF ok THEN /\ fBs' = [fBs EXCEPT ![fIdx + 1] = PmMkAnd(lemmas)]
                  /\ fChange' = TRUE
             ELSE UNCHANGED <<fBs, fChange>>
  /\ fIdx' = fIdx + 1
  /\ UNCHANGED <<gen, pc, ret, core, input, ul, ul0, det, oracleVars, vres, run,
                 boolVars, failLimit, multiVars, arithVars, fB, hasParent, indRes>>

FarkasFinish ==
  /\ pc = "farkas_loop"
  /\ fIdx >= Len(fBs)
  /\ core' = IF fChange THEN FlattenAnd(<<PmMkOr(fBs)>>) ELSE core
  /\ ul' = FarkasUsesLevel(fChange, ul)
  /\ pc' = "done"
  /\ UNCHANGED <<gen, ret, input, ul0, det, oracleVars, vres, run,
                 boolVars, failLimit, multiVars, arithVars, fkVars, hasParent, indRes>>

\* ---------------------------------------------------------------------------
\* core_induction_generalizer::operator(): the induction goal is discharged by
\* a fresh smt::kernel whose answer is sat, unsat or unknown.
BlockedLit == MkNot(MkAtom("blocked_transition"))
\* the blocked-transition literal pushed without core.reset()
InductionCoreNoReset(c) == Append(c, BlockedLit)
\* core.reset(); core.push_back(m.mk_not(phi));
InductionCore(c) == <<BlockedLit>>

InductionRun ==
  /\ pc = "start" /\ gen = "induction"
  /\ IF ~hasParent
       THEN UNCHANGED <<core, ul, indRes>>
       ELSE \E r \in {"sat", "unsat", "unknown"} :
              /\ indRes' = r
              /\ IF r = "unsat" THEN /\ core' = InductionCore(core)
                                     /\ ul' = TRUE
                                ELSE UNCHANGED <<core, ul>>
  /\ pc' = "done"
  /\ UNCHANGED <<gen, ret, input, ul0, det, oracleVars, vres, run,
                 boolVars, failLimit, multiVars, arithVars, fkVars, hasParent>>

\* ---------------------------------------------------------------------------
\* The caller re-runs check_inductive on the returned core.
Verify ==
  /\ pc = "done" /\ gen # "multi" /\ vres = "none"
  /\ \E b \in MemoVals(LitSet(core)) :
       /\ memo' = MemoAdd(LitSet(core), b)
       /\ vres' = IF b THEN "true" ELSE "false"
  /\ UNCHANGED <<gen, pc, ret, core, input, ul, ul0, det, called, mono, run,
                 boolVars, failLimit, multiVars, arithVars, fkVars, hasParent, indRes>>

\* The caller invokes the bool generalizer again on the core it returned.
Rerun ==
  /\ pc = "done" /\ gen = "bool" /\ run = 1
  /\ run' = 2
  /\ input' = core
  /\ ul0' = ul
  /\ vres' = "none"
  /\ called' = FALSE
  /\ UNCHANGED mono
  /\ pc' = "start"
  /\ UNCHANGED <<gen, ret, core, ul, det, memo, boolVars, failLimit,
                 multiVars, arithVars, fkVars, hasParent, indRes>>

Next ==
  \/ BoolStart \/ BoolStep \/ BoolExit
  \/ MultiStart \/ MultiStep
  \/ ArithStart \/ ArithStep \/ ArithExit
  \/ FarkasStart \/ FarkasStep \/ FarkasFinish
  \/ InductionRun
  \/ Verify \/ Rerun

Spec == Init /\ [][Next]_vars

\* Runs of the generalizers against a deterministic oracle, with the
\* weak fairness of a sequential program.
LiveInit == Init /\ det = TRUE
LiveSpec == LiveInit /\ [][Next]_vars /\ WF_vars(Next)

\* ---------------------------------------------------------------------------
\* Properties

\* check_inductive's verdict on the input core at the call
Baseline == LitSet(input) \in DOMAIN memo /\ memo[LitSet(input)]
CountIn(s, l) == Cardinality({j \in 1..Len(s) : s[j] = l})

\* C1: for every single-core strategy, if check_inductive holds on the input
\* core, it also holds on the core the generalizer returns.
C1_Soundness ==
  (pc = "done" /\ gen # "multi" /\ vres # "none" /\ Baseline) => vres = "true"

\* C2 (as claimed): uses_level true on entry is still true on return for every
\* strategy, whatever check_inductive does; for the multi generalizer, every
\* entry of new_cores carries uses_level true.
C2_UsesLevelAnyOracle ==
  (pc = "done" /\ ul0) =>
    IF gen = "multi" THEN \A k \in 1..Len(mCores) : mCores[k].ul ELSE ul
\* C2 (amended): with a check_inductive that never lowers uses_level, uses_level
\* true on entry is true on return for every strategy, and every new_cores
\* entry of the multi generalizer carries true.
C2_UsesLevel ==
  (mono /\ pc = "done" /\ ul0) =>
    IF gen = "multi" THEN \A k \in 1..Len(mCores) : mCores[k].ul ELSE ul
C2_Witness ==
  mono /\ pc = "done" /\ gen = "multi" /\ ul0 /\ called /\ Len(mCores) = 1 /\ mCores[1].ul

\* C3: the bool generalizer's output is a sub-multiset of its input.
C3_SubMultiset ==
  (pc = "done" /\ gen = "bool") =>
    \A l \in ExprSet(core) : CountIn(core, l) <= CountIn(input, l)

C5_MultiCoverage ==
  (pc = "done" /\ gen = "multi") =>
    /\ \A k \in 2..Len(mCores) : ExprSet(mCores[k].c) \subseteq ExprSet(input)
                                  /\ ExprSet(mCores[k].c) # ExprSet(input)
    /\ \A j, k \in 1..Len(mCores) :
          j # k => ~(ExprSet(mCores[k].c) \subseteq ExprSet(mCores[j].c))

\* C6: the bool and arith generalizers return at once on a core of at most
\* one literal: no oracle call, core and uses_level unchanged.
C6_SmallCoreGuard ==
  (pc = "done" /\ gen \in {"bool", "arith"} /\ Len(input) <= 1) =>
    (~called /\ core = input /\ ul = ul0)
C6_Witness ==
  pc = "done" /\ gen = "bool" /\ Len(input) = 1 /\ run = 1

\* C7: the bool generalizer's loop terminates for an oracle that does not
\* modify the core.
C7_Terminates == <>(pc = "done")

\* C8 (as claimed): with m_failure_limit = L > 0 a call makes at most L + 1
\* rejected check_inductive trials.
C8_TotalFailures ==
  (gen = "bool" /\ failLimit > 0) => rejects <= failLimit + 1
\* C8 (amended): the rejections since the last accepted drop (num_failures)
\* never exceed L + 1.
C8_FailureLimit ==
  (gen \in {"bool", "multi"} /\ failLimit > 0) => nf <= failLimit + 1
C8_Witness ==
  pc = "done" /\ gen = "bool" /\ failLimit > 0 /\ nf > failLimit /\ rejects > nf

\* C9: when the first minimized core keeps the input's first literal, the
\* trial without that literal yields a smaller core, so new_cores has at least
\* two entries.
C9_MultiTrials ==
  (pc = "done" /\ gen = "multi" /\ Len(input) >= 2
     /\ input[1] \in ExprSet(mCores[1].c)) => Len(mCores) >= 2

\* C10: each interpolation request of the Farkas generalizer targets the
\* disjunct Bs[i].
C10_FarkasTarget == fTarget = fDisj

\* C11: the arith candidate for equality (x, r, k, l) holds true at k and l,
\* except that for |r| >= 2 and integer x it holds x mod 2 = 0 at k and
\* x <= r at l; every other position holds the alias substitution of core[i],
\* or core[i] itself.
C11_ArithCandidate ==
  aCand # <<>> =>
    LET q == aEq IN
    /\ IF Abs(q.r) >= 2 /\ IsInt(q.x)
         THEN aCand[q.k + 1] = MkParity(q.x) /\ aCand[q.l + 1] = MkLe(q.x, q.r)
         ELSE aCand[q.k + 1] = TrueLit /\ aCand[q.l + 1] = TrueLit
    /\ \A j \in 1..Len(aBase) :
         j - 1 \notin {q.k, q.l} =>
           aCand[j] = IF SubstituteAlias(q.r, q.x, aBase[j]).ok
                        THEN SubstituteAlias(q.r, q.x, aBase[j]).res
                        ELSE aBase[j]

\* bound literal (possibly negated) with numeral r, and its term
RECURSIVE IsBoundWith(_, _)
IsBoundWith(r, e) ==
  IF e.op = "not" THEN IsBoundWith(r, e.args[1])
  ELSE e.op \in {"le", "ge"} /\ IsNumeral(e) /\ e.n = r
RECURSIVE BoundTerm(_)
BoundTerm(e) == IF e.op = "not" THEN BoundTerm(e.args[1]) ELSE e.t
\* the literal with its term replaced by x, direction, numeral and negation kept
RECURSIVE AliasedTo(_, _)
AliasedTo(x, e) ==
  IF e.op = "not" THEN MkNot(AliasedTo(x, e.args[1]))
  ELSE IF e.op = "le" THEN MkLe(x, e.n) ELSE MkGe(x, e.n)

\* C12: in the arith candidate, every other literal stating a bound with the
\* same value r on a term y # x becomes the same bound on x (y <= r becomes
\* x <= r, not(y >= r) becomes not(x >= r)).
C12_AliasSubstitution ==
  aCand # <<>> =>
    \A j \in 1..Len(aBase) :
      (/\ j - 1 \notin {aEq.k, aEq.l}
       /\ IsBoundWith(aEq.r, aBase[j])
       /\ BoundTerm(aBase[j]) # aEq.x) => aCand[j] = AliasedTo(aEq.x, aBase[j])

\* C13: with a parent and an unsat induction goal, the induction generalizer
\* replaces the core by the single blocked-transition literal and sets
\* uses_level; on sat, unknown or without a parent it changes neither.
C13_Induction ==
  (pc = "done" /\ gen = "induction") =>
    IF hasParent /\ indRes = "unsat"
      THEN core = <<BlockedLit>> /\ ul = TRUE
      ELSE core = input /\ ul = ul0
C13_Witness ==
  pc = "done" /\ gen = "induction" /\ indRes = "unsat" /\ Len(input) >= 2 /\ ~ul0

====
